---- MODULE Spec2Model ----
(***************************************************************************)
(* A model of src/main.rs: a sequential HTTP server giving CRUD access to  *)
(* one PostgreSQL table, users(id SERIAL PRIMARY KEY, name VARCHAR NOT     *)
(* NULL, email VARCHAR UNIQUE NOT NULL).                                   *)
(*                                                                         *)
(* Text is modelled character by character: a Rust String is a sequence of *)
(* one-character strings, so that starts_with, split, split_whitespace,    *)
(* parse::<i32> and the JSON deserializer are computed as the code         *)
(* computes them.                                                          *)
(***************************************************************************)
EXTENDS Integers, Sequences, FiniteSets, TLC

(***************************************************************************)
(* Bounds of the model.                                                    *)
(***************************************************************************)
\* The largest value the users_id_seq sequence takes: the number of INSERTs
\* the model lets the server attempt.
MaxSeq == 2

(***************************************************************************)
(* Text helpers.                                                           *)
(***************************************************************************)
CR == "\r"
LF == "\n"
QUOTE == "\""

\* char::is_whitespace, on the characters the model uses.
Whitespace == {" ", "\t", CR, LF}

DigitChars == <<"0", "1", "2", "3", "4", "5", "6", "7", "8", "9">>

IsDigit(c) == \E k \in 1..10 : DigitChars[k] = c

DigitVal(c) == (CHOOSE k \in 1..10 : DigitChars[k] = c) - 1

\* str::starts_with
StartsWith(s, p) == Len(s) >= Len(p) /\ SubSeq(s, 1, Len(p)) = p

\* The index of the first occurrence of pattern p in s at or after i, or 0.
RECURSIVE FindFrom(_, _, _)
FindFrom(s, p, i) ==
    IF i + Len(p) - 1 > Len(s) THEN 0
    ELSE IF SubSeq(s, i, i + Len(p) - 1) = p THEN i
    ELSE FindFrom(s, p, i + 1)

\* str::split(pattern): the pieces between the non-overlapping matches of p,
\* found from the left; always at least one piece.
RECURSIVE Split(_, _)
Split(s, p) ==
    LET cut(k) ==
            IF k = 0 THEN <<s>>
            ELSE <<SubSeq(s, 1, k - 1)>> \o Split(SubSeq(s, k + Len(p), Len(s)), p)
    IN  cut(FindFrom(s, p, 1))

\* Iterator::nth(n).unwrap_or_default() on the pieces of a split.
NthOrDefault(parts, n) == IF Len(parts) > n THEN parts[n + 1] ELSE <<>>

\* The first index at or after i that holds no whitespace (Len(s)+1 if none).
RECURSIVE SkipWs(_, _)
SkipWs(s, i) ==
    IF i > Len(s) THEN i
    ELSE IF s[i] \in Whitespace THEN SkipWs(s, i + 1)
    ELSE i

\* The first index at or after i that holds whitespace (Len(s)+1 if none).
RECURSIVE SkipNonWs(_, _)
SkipNonWs(s, i) ==
    IF i > Len(s) THEN i
    ELSE IF s[i] \in Whitespace THEN i
    ELSE SkipNonWs(s, i + 1)

\* str::split_whitespace().next().unwrap_or_default()
FirstWord(s) ==
    LET word(a) == IF a > Len(s) THEN <<>> ELSE SubSeq(s, a, SkipNonWs(s, a) - 1)
    IN  word(SkipWs(s, 1))

\* The decimal text of a natural number.
RECURSIVE Decimal(_)
Decimal(n) ==
    IF n < 10 THEN <<DigitChars[n + 1]>>
    ELSE Decimal(n \div 10) \o <<DigitChars[(n % 10) + 1]>>

(***************************************************************************)
(* get_id and str::parse::<i32>.                                           *)
(***************************************************************************)
\* A plausible slip: nth(1), the piece after the first '/'.
get_id_second_piece(request) == FirstWord(NthOrDefault(Split(request, <<"/">>), 1))

\* fn get_id: the first whitespace-delimited word of the third piece of the
\* request split at '/', or the empty string.
get_id(request) == FirstWord(NthOrDefault(Split(request, <<"/">>), 2))

\* i32::MAX
I32Max == 2147483647

Err == [ok |-> FALSE, val |-> 0]

Ok(v) == [ok |-> TRUE, val |-> v]

\* The digits of s from index i accumulated onto acc, as i32::from_str does:
\* added for a positive number, subtracted for a negative one, any step that
\* leaves the i32 range being an error and any other character too.
RECURSIVE ParseDigits(_, _, _, _)
ParseDigits(s, i, acc, negative) ==
    IF i > Len(s) THEN Ok(acc)
    ELSE IF ~IsDigit(s[i]) THEN Err
    ELSE LET step(d) ==
                 IF negative
                 THEN IF acc < -(I32Max \div 10) \/ acc * 10 < (-I32Max - 1) + d
                      THEN Err
                      ELSE ParseDigits(s, i + 1, acc * 10 - d, negative)
                 ELSE IF acc > I32Max \div 10 \/ acc * 10 > I32Max - d
                      THEN Err
                      ELSE ParseDigits(s, i + 1, acc * 10 + d, negative)
         IN  step(DigitVal(s[i]))

\* The sign handling of i32::from_str: a text that is empty or only a sign
\* is an error, a leading sign is eaten.
ParseSigned(s) ==
    IF s = <<>> THEN Err
    ELSE IF s = <<"+">> \/ s = <<"-">> THEN Err
    ELSE IF s[1] = "+" THEN ParseDigits(s, 2, 0, FALSE)
    ELSE IF s[1] = "-" THEN ParseDigits(s, 2, 0, TRUE)
    ELSE ParseDigits(s, 1, 0, FALSE)

\* A plausible slip: id.parse().unwrap_or(0), every text becoming an id.
ParseI32OrZero(s) ==
    LET orZero(r) == IF r.ok THEN r ELSE Ok(0)
    IN  orZero(ParseSigned(s))

\* str::parse::<i32>(): an optional sign, then one or more decimal digits
\* whose value fits in 32 bits.
ParseI32(s) == ParseSigned(s)

\* request.split("\r\n\r\n").last().unwrap_or(""): the text after the last
\* blank line, the whole request when it has none.
RequestBody(request) ==
    LET last(parts) == parts[Len(parts)]
    IN  last(Split(request, <<CR, LF, CR, LF>>))

(***************************************************************************)
(* serde_json::from_str::<NewUser>, for a struct that derives Deserialize  *)
(* with the fields name: String and email: String.  The JSON the model     *)
(* reads is flat: the values of an object or an array are strings,         *)
(* integers, null, true or false, and strings hold no escapes.             *)
(***************************************************************************)
NAME == <<"n", "a", "m", "e">>
EMAIL == <<"e", "m", "a", "i", "l">>

None == [some |-> FALSE, v |-> <<>>]

Some(v) == [some |-> TRUE, v |-> v]

\* What a parse step returns: whether it succeeded, the kind and text of the
\* value it read, and the index after it.
Fail == [ok |-> FALSE, kind |-> "none", v |-> <<>>, next |-> 0]

Value(kind, v, next) == [ok |-> TRUE, kind |-> kind, v |-> v, next |-> next]

\* A string literal opening at index i: the text up to the closing quote; a
\* raw control character inside it is an error.
ParseString(b, i) ==
    LET closed(j) ==
            IF j = 0 THEN Fail
            ELSE IF \E k \in (i + 1)..(j - 1) : b[k] \in {CR, LF, "\t"} THEN Fail
            ELSE Value("string", SubSeq(b, i + 1, j - 1), j + 1)
    IN  closed(FindFrom(b, <<QUOTE>>, i + 1))

\* The index after the run of digits that starts at i.
RECURSIVE SkipDigits(_, _)
SkipDigits(b, i) ==
    IF i <= Len(b) /\ IsDigit(b[i]) THEN SkipDigits(b, i + 1) ELSE i

\* An integer literal at index i: an optional minus, then 0 or a run of
\* digits that does not start with 0.
ParseNumber(b, i) ==
    LET digits(d, e) ==
            IF e = d THEN Fail
            ELSE IF b[d] = "0" /\ e > d + 1 THEN Fail
            ELSE Value("number", SubSeq(b, i, e - 1), e)
        from(d) == digits(d, SkipDigits(b, d))
    IN  from(IF b[i] = "-" THEN i + 1 ELSE i)

ParseKeyword(b, i, word, kind) ==
    IF i + Len(word) - 1 <= Len(b) /\ SubSeq(b, i, i + Len(word) - 1) = word
    THEN Value(kind, word, i + Len(word))
    ELSE Fail

\* A JSON value at index i (which holds no whitespace).
ParseValue(b, i) ==
    IF i > Len(b) THEN Fail
    ELSE IF b[i] = QUOTE THEN ParseString(b, i)
    ELSE IF b[i] = "-" \/ IsDigit(b[i]) THEN ParseNumber(b, i)
    ELSE IF b[i] = "n" THEN ParseKeyword(b, i, <<"n", "u", "l", "l">>, "null")
    ELSE IF b[i] = "t" THEN ParseKeyword(b, i, <<"t", "r", "u", "e">>, "bool")
    ELSE IF b[i] = "f" THEN ParseKeyword(b, i, <<"f", "a", "l", "s", "e">>, "bool")
    ELSE Fail

\* The result of deserializing a NewUser.
NoUser == [ok |-> FALSE, name |-> <<>>, email |-> <<>>, next |-> 0]

\* The derived visit_map: the members of an object from index i on, `first`
\* telling whether a key or the closing brace may come next without a comma.
\* A key name or email must carry a string (the only JSON value a String
\* field takes) and may come once; any other key is skipped with its value;
\* at the closing brace both fields must be set.
RECURSIVE ParseMembers(_, _, _, _, _)
ParseMembers(b, i, name, email, first) ==
    LET member(key, val) ==
            IF ~val.ok THEN NoUser
            ELSE IF key.v = NAME
            THEN IF name.some \/ val.kind # "string" THEN NoUser
                 ELSE ParseMembers(b, val.next, Some(val.v), email, FALSE)
            ELSE IF key.v = EMAIL
            THEN IF email.some \/ val.kind # "string" THEN NoUser
                 ELSE ParseMembers(b, val.next, name, Some(val.v), FALSE)
            ELSE ParseMembers(b, val.next, name, email, FALSE)
        colon(key, c) ==
            IF c > Len(b) \/ b[c] # ":" THEN NoUser
            ELSE member(key, ParseValue(b, SkipWs(b, c + 1)))
        keyed(key) ==
            IF ~key.ok THEN NoUser ELSE colon(key, SkipWs(b, key.next))
        keyAt(k) ==
            IF k > Len(b) \/ b[k] # QUOTE THEN NoUser ELSE keyed(ParseString(b, k))
        at(a) ==
            IF a > Len(b) THEN NoUser
            ELSE IF b[a] = "}"
            THEN IF name.some /\ email.some
                 THEN [ok |-> TRUE, name |-> name.v, email |-> email.v,
                       next |-> a + 1]
                 ELSE NoUser
            ELSE IF first THEN keyAt(a)
            ELSE IF b[a] # "," THEN NoUser
            ELSE keyAt(SkipWs(b, a + 1))
    IN  at(SkipWs(b, i))

\* The derived visit_seq: an array of exactly two strings, the name and the
\* email in the order of the struct's fields; i is the index after '['.
ParseElements(b, i) ==
    LET closing(first, second, e) ==
            IF e <= Len(b) /\ b[e] = "]"
            THEN [ok |-> TRUE, name |-> first.v, email |-> second.v, next |-> e + 1]
            ELSE NoUser
        two(first, second) ==
            IF second.ok /\ second.kind = "string"
            THEN closing(first, second, SkipWs(b, second.next))
            ELSE NoUser
        comma(first, c) ==
            IF c <= Len(b) /\ b[c] = ","
            THEN two(first, ParseValue(b, SkipWs(b, c + 1)))
            ELSE NoUser
        one(first) ==
            IF first.ok /\ first.kind = "string"
            THEN comma(first, SkipWs(b, first.next))
            ELSE NoUser
    IN  one(ParseValue(b, SkipWs(b, i)))

\* serde_json::from_str::<NewUser>(body): one object or one array, with
\* nothing but whitespace around it.
FromStrNewUser(body) ==
    LET whole(u) == IF u.ok /\ SkipWs(body, u.next) > Len(body) THEN u ELSE NoUser
        at(a) ==
            IF a > Len(body) THEN NoUser
            ELSE IF body[a] = "{"
            THEN whole(ParseMembers(body, a + 1, None, None, TRUE))
            ELSE IF body[a] = "[" THEN whole(ParseElements(body, a + 1))
            ELSE NoUser
    IN  at(SkipWs(body, 1))

\* fn deserialize_user_from_request_body
deserialize_user_from_request_body(request) == FromStrNewUser(RequestBody(request))

(***************************************************************************)
(* The users table and the five SQL statements.  A row is a record         *)
(* [id, name, email]; the table is the set of its rows, seq the last value *)
(* users_id_seq gave out.  A statement returns whether it succeeded, the   *)
(* table and sequence after it, and the rows it affected or returned.      *)
(***************************************************************************)
Row(id, name, email) == [id |-> id, name |-> name, email |-> email]

Ids(tbl) == {r.id : r \in tbl}

Emails(tbl) == {r.email : r \in tbl}

Result(ok, tbl, seq, rows) == [ok |-> ok, table |-> tbl, seq |-> seq, rows |-> rows]

\* A plausible slip: the table declared without UNIQUE on email.
InsertNoUnique(tbl, seq, name, email) ==
    Result(TRUE, tbl \cup {Row(seq + 1, name, email)}, seq + 1,
           {Row(seq + 1, name, email)})

\* A plausible slip: the id computed as MAX(id) + 1 instead of taken from
\* the sequence.
InsertMaxPlusOne(tbl, seq, name, email) ==
    LET id == IF tbl = {} THEN 1
              ELSE (CHOOSE m \in Ids(tbl) : \A k \in Ids(tbl) : k <= m) + 1
    IN  IF email \in Emails(tbl) THEN Result(FALSE, tbl, seq, {})
        ELSE Result(TRUE, tbl \cup {Row(id, name, email)}, seq,
                    {Row(id, name, email)})

\* INSERT INTO users (name, email) VALUES ($1, $2): the id is the sequence's
\* next value, which is used up even when the UNIQUE constraint on email
\* then refuses the row.
Insert(tbl, seq, name, email) ==
    IF email \in Emails(tbl) THEN Result(FALSE, tbl, seq + 1, {})
    ELSE Result(TRUE, tbl \cup {Row(seq + 1, name, email)}, seq + 1,
                {Row(seq + 1, name, email)})

\* A plausible slip: an upsert, the row created when no row has the id.
UpdateOrInsert(tbl, seq, id, name, email) ==
    IF \E r \in tbl : r.id # id /\ r.email = email THEN Result(FALSE, tbl, seq, {})
    ELSE Result(TRUE, {r \in tbl : r.id # id} \cup {Row(id, name, email)}, seq,
                {Row(id, name, email)})

\* UPDATE users SET name=$2, email=$3 WHERE id=$1: no row with the id is a
\* success that affects nothing; an email another row holds is refused.
Update(tbl, seq, id, name, email) ==
    IF id \notin Ids(tbl) THEN Result(TRUE, tbl, seq, {})
    ELSE IF \E r \in tbl : r.id # id /\ r.email = email
    THEN Result(FALSE, tbl, seq, {})
    ELSE Result(TRUE, {r \in tbl : r.id # id} \cup {Row(id, name, email)}, seq,
                {Row(id, name, email)})

\* A plausible slip: WHERE id <= $1.
DeleteUpTo(tbl, seq, id) ==
    Result(TRUE, {r \in tbl : r.id > id}, seq, {r \in tbl : r.id <= id})

\* DELETE FROM users WHERE id = $1
Delete(tbl, seq, id) ==
    Result(TRUE, {r \in tbl : r.id # id}, seq, {r \in tbl : r.id = id})

\* SELECT * FROM users WHERE id = $1, through query_one: an error unless
\* exactly one row comes back.
SelectOne(tbl, seq, id) ==
    LET rows == {r \in tbl : r.id = id}
    IN  Result(Cardinality(rows) = 1, tbl, seq, rows)

\* SELECT id, name, email FROM users
SelectAll(tbl, seq) == Result(TRUE, tbl, seq, tbl)

(***************************************************************************)
(* The requests clients send.                                              *)
(***************************************************************************)
GET == <<"G", "E", "T">>
POST == <<"P", "O", "S", "T">>
PUT == <<"P", "U", "T">>
DELETE == <<"D", "E", "L", "E", "T", "E">>
PATCH == <<"P", "A", "T", "C", "H">>
USERS == <<"/", "u", "s", "e", "r", "s">>
HTTP11 == <<"H", "T", "T", "P", "/", "1", ".", "1">>

\* /users/<id>
PathTarget(id) == USERS \o <<"/">> \o id

\* /users?id=<id>
QueryTarget(id) == USERS \o <<"?", "i", "d", "=">> \o id

\* A request with the request line `<method> <target> HTTP/1.1`, no header
\* and the given body.
Request(method, target, body) ==
    method \o <<" ">> \o target \o <<" ">> \o HTTP11 \o <<CR, LF, CR, LF>> \o body

Lit(v) == <<QUOTE>> \o v \o <<QUOTE>>

\* {"name":"<name>","email":"<email>"}
ObjectBody(name, email) ==
    <<"{">> \o Lit(NAME) \o <<":">> \o Lit(name) \o <<",">>
            \o Lit(EMAIL) \o <<":">> \o Lit(email) \o <<"}">>

\* {"id":7,"email":"<email>","name":"<name>"} followed by a line end
ObjectBodyWithId(name, email) ==
    <<"{">> \o Lit(<<"i", "d">>) \o <<":", "7", ",", " ">>
            \o Lit(EMAIL) \o <<":">> \o Lit(email) \o <<",", " ">>
            \o Lit(NAME) \o <<":", " ">> \o Lit(name) \o <<"}", CR, LF>>

\* ["<name>","<email>"]
ArrayBody(name, email) == <<"[">> \o Lit(name) \o <<",">> \o Lit(email) \o <<"]">>

\* {"name":null,"email":"<email>"}
NullNameBody(email) ==
    <<"{">> \o Lit(NAME) \o <<":", "n", "u", "l", "l", ",">>
            \o Lit(EMAIL) \o <<":">> \o Lit(email) \o <<"}">>

\* {"email":"<email>"}
NoNameBody(email) == <<"{">> \o Lit(EMAIL) \o <<":">> \o Lit(email) \o <<"}">>

\* {"name":"<name>","email":1}
NumberEmailBody(name) ==
    <<"{">> \o Lit(NAME) \o <<":">> \o Lit(name) \o <<",">>
            \o Lit(EMAIL) \o <<":", "1", "}">>

\* The names and emails clients submit.
Names == {<<>>, <<"a">>}

Addresses == {<<"x">>, <<"y">>}

\* Bodies that are a JSON object with the string fields name and email.
ObjectBodies ==
    {ObjectBody(n, e) : n \in Names, e \in Addresses}
        \cup {ObjectBodyWithId(<<"a">>, <<"y">>)}

ArrayBodies == {ArrayBody(<<"a">>, <<"x">>)}

\* Bodies whose name is null or missing.
NamelessBodies == {NullNameBody(<<"x">>), NoNameBody(<<"y">>)}

\* Bodies that are no JSON object with the string fields name and email,
\* and no array.
MalformedBodies ==
    NamelessBodies
        \cup {NumberEmailBody(<<"a">>), <<>>, <<"h", "i">>,
              ObjectBody(<<"a">>, <<"x">>) \o <<"x">>}

Bodies == ObjectBodies \cup ArrayBodies \cup MalformedBodies

\* Texts that are a 32-bit decimal integer: the ids the sequence can give
\* out, and one it never reaches.
IntegerIdTexts == {Decimal(n) : n \in 1..MaxSeq} \cup {<<"+", "9">>}

\* Texts that are none: a word, nothing, and 2^31.
OtherIdTexts == {<<"x">>, <<>>, <<"2", "1", "4", "7", "4", "8", "3", "6", "4", "8">>}

IdTexts == IntegerIdTexts \cup OtherIdTexts

Requests ==
    {Request(GET, USERS, <<>>), Request(GET, <<"/", "u", "s", "e", "r">>, <<>>),
     Request(PATCH, USERS, <<>>), Request(GET, QueryTarget(<<"1">>), <<>>),
     Request(DELETE, QueryTarget(<<"1">>), <<>>),
     Request(PUT, QueryTarget(<<"1">>), ObjectBody(<<"a">>, <<"y">>))}
        \cup {Request(GET, PathTarget(i), <<>>) : i \in IdTexts}
        \cup {Request(DELETE, PathTarget(i), <<>>) : i \in IdTexts}
        \cup {Request(POST, USERS, b) : b \in Bodies}
        \cup {Request(PUT, PathTarget(i), b) : i \in IntegerIdTexts, b \in Bodies}
        \cup {Request(PUT, PathTarget(i), b) :
                  i \in OtherIdTexts, b \in {ObjectBody(<<"a">>, <<"x">>), <<>>}}

(***************************************************************************)
(* Responses: the status of the status line and what the body says.        *)
(***************************************************************************)
\* format!("{}", n) for an i32.
\* The last decimal digit of a negative number.
LastDigit(n) == (10 - (n % 10)) % 10

RECURSIVE FormatI32(_)
FormatI32(n) ==
    IF n >= 0 THEN Decimal(n)
    ELSE IF n > -10 THEN <<"-", DigitChars[LastDigit(n) + 1]>>
    ELSE FormatI32((n + LastDigit(n)) \div 10) \o <<DigitChars[LastDigit(n) + 1]>>

Response(status, kind, content) ==
    [status |-> status, kind |-> kind, content |-> content]

NoResponse == Response(0, "none", <<>>)

\* A plain-text body: a message with the text that fills its {}.
Message(msg, arg) == [msg |-> msg, arg |-> arg]

(***************************************************************************)
(* The router and the handlers.  A handler runs in two parts: up to its   *)
(* Client::connect (what it parses out of the request, or the response it  *)
(* gives without a database), and from its statement on.                   *)
(***************************************************************************)
\* A plausible slip: the arms for GET /users and GET /users/ exchanged.
RouteGetAllFirst(request) ==
    IF StartsWith(request, GET \o <<" ">> \o USERS) THEN "get_all"
    ELSE IF StartsWith(request, GET \o <<" ">> \o USERS \o <<"/">>) THEN "get_user"
    ELSE IF StartsWith(request, POST \o <<" ">> \o USERS) THEN "post"
    ELSE IF StartsWith(request, PUT \o <<" ">> \o USERS) THEN "update"
    ELSE IF StartsWith(request, DELETE \o <<" ">> \o USERS) THEN "delete"
    ELSE "not_found"

\* handle_client's match: the first arm whose prefix the request starts with.
Route(request) ==
    IF StartsWith(request, GET \o <<" ">> \o USERS \o <<"/">>) THEN "get_user"
    ELSE IF StartsWith(request, GET \o <<" ">> \o USERS) THEN "get_all"
    ELSE IF StartsWith(request, POST \o <<" ">> \o USERS) THEN "post"
    ELSE IF StartsWith(request, PUT \o <<" ">> \o USERS) THEN "update"
    ELSE IF StartsWith(request, DELETE \o <<" ">> \o USERS) THEN "delete"
    ELSE "not_found"

\* What a handler has parsed when it connects to the database.
Args(id, id_text, name, email) ==
    [id |-> id, id_text |-> id_text, name |-> name, email |-> email]

NoArgs == Args(0, <<>>, <<>>, <<>>)

\* The first part of a handler ends with a connection to open, or with a
\* response.
Connect(a) == [connect |-> TRUE, args |-> a, resp |-> NoResponse]

Respond(r) == [connect |-> FALSE, args |-> NoArgs, resp |-> r]

BadRequest(msg, arg) == Response(400, "message", Message(msg, arg))

handle_get_user_request_parse(request) ==
    LET parsed(id, id_int) ==
            IF id_int.ok THEN Connect(Args(id_int.val, id, <<>>, <<>>))
            ELSE Respond(BadRequest("Invalid ID: {}", id))
        with(id) == parsed(id, ParseI32(id))
    IN  with(get_id(request))

handle_get_all_request_parse(request) == Connect(NoArgs)

\* A plausible slip: deserialize(...).unwrap_or_default(), a body that does
\* not deserialize becoming a NewUser with empty fields.
handle_post_request_parse_or_default(request) ==
    LET parsed(user) ==
            IF user.ok THEN Connect(Args(0, <<>>, user.name, user.email))
            ELSE Connect(Args(0, <<>>, <<>>, <<>>))
    IN  parsed(deserialize_user_from_request_body(request))

handle_post_request_parse(request) ==
    LET parsed(user) ==
            IF user.ok THEN Connect(Args(0, <<>>, user.name, user.email))
            ELSE Respond(BadRequest("Invalid request body", <<>>))
    IN  parsed(deserialize_user_from_request_body(request))

handle_update_request_parse(request) ==
    LET parsed(id, user, id_int) ==
            IF ~user.ok THEN Respond(BadRequest("Invalid request body", <<>>))
            ELSE IF ~id_int.ok
            THEN Respond(BadRequest("Invalid ID: {}. Error: {}", id))
            ELSE Connect(Args(id_int.val, id, user.name, user.email))
        with(id) == parsed(id, FromStrNewUser(RequestBody(request)), ParseI32(id))
    IN  with(get_id(request))

handle_delete_request_parse(request) ==
    LET parsed(id, id_int) ==
            IF id_int.ok THEN Connect(Args(id_int.val, id, <<>>, <<>>))
            ELSE Respond(BadRequest("Invalid ID: {}", id))
        with(id) == parsed(id, ParseI32(id))
    IN  with(get_id(request))

not_found_arm(request) == Respond(Response(404, "text", "404 Not Found"))

\* The second part of a handler: its statement on the table, `error` telling
\* whether the driver fails it (the connection lost, the server gone), and
\* the response built from the result.  `panic` is an unwrap of an Err.
Outcome(panic, r, res) ==
    [panic |-> panic, resp |-> r, table |-> res.table, seq |-> res.seq,
     rows |-> res.rows]

DriverError(tbl, seq) == Result(FALSE, tbl, seq, {})

handle_get_user_request_query(a, request, tbl, seq, error) ==
    LET built(res) ==
            IF res.ok
            THEN Outcome(FALSE, Response(200, "user", CHOOSE r \in res.rows : TRUE),
                         res)
            ELSE Outcome(FALSE,
                     Response(404, "message",
                              Message("User with ID {} not found", a.id_text)), res)
    IN  built(IF error THEN DriverError(tbl, seq) ELSE SelectOne(tbl, seq, a.id))

handle_get_all_request_query(a, request, tbl, seq, error) ==
    LET built(res) ==
            IF res.ok THEN Outcome(FALSE, Response(200, "users", res.rows), res)
            ELSE Outcome(TRUE, NoResponse, res)
    IN  built(IF error THEN DriverError(tbl, seq) ELSE SelectAll(tbl, seq))

handle_post_request_execute(a, request, tbl, seq, error) ==
    LET built(res) ==
            IF res.ok
            THEN Outcome(FALSE, Response(200, "raw", RequestBody(request)), res)
            ELSE Outcome(FALSE,
                     Response(500, "text", "Failed to insert user into database"),
                     res)
    IN  built(IF error THEN DriverError(tbl, seq)
              ELSE Insert(tbl, seq, a.name, a.email))

handle_update_request_execute(a, request, tbl, seq, error) ==
    LET built(res) ==
            IF res.ok
            THEN Outcome(FALSE,
                     Response(200, "new_user", [name |-> a.name, email |-> a.email]),
                     res)
            ELSE Outcome(FALSE,
                     Response(500, "message",
                              Message("Error updating user: {}", <<>>)), res)
    IN  built(IF error THEN DriverError(tbl, seq)
              ELSE Update(tbl, seq, a.id, a.name, a.email))

handle_delete_request_execute(a, request, tbl, seq, error) ==
    LET built(res) ==
            IF ~res.ok THEN Outcome(TRUE, NoResponse, res)
            ELSE IF Cardinality(res.rows) = 1
            THEN Outcome(FALSE, Response(200, "json_string", a.id_text), res)
            ELSE Outcome(FALSE,
                     Response(404, "message",
                              Message("User with ID {} not found", FormatI32(a.id))),
                     res)
    IN  built(IF error THEN DriverError(tbl, seq) ELSE Delete(tbl, seq, a.id))

\* The first part of the handler the router chose.
Parse(h, request) ==
    CASE h = "get_user" -> handle_get_user_request_parse(request)
      [] h = "get_all" -> handle_get_all_request_parse(request)
      [] h = "post" -> handle_post_request_parse(request)
      [] h = "update" -> handle_update_request_parse(request)
      [] h = "delete" -> handle_delete_request_parse(request)
      [] OTHER -> not_found_arm(request)

\* The second part of the handler the router chose.
Statement(h, a, request, tbl, seq, error) ==
    CASE h = "get_user" -> handle_get_user_request_query(a, request, tbl, seq, error)
      [] h = "get_all" -> handle_get_all_request_query(a, request, tbl, seq, error)
      [] h = "post" -> handle_post_request_execute(a, request, tbl, seq, error)
      [] h = "update" -> handle_update_request_execute(a, request, tbl, seq, error)
      [] OTHER -> handle_delete_request_execute(a, request, tbl, seq, error)

\* The size of handle_client's read buffer.
BufferSize == 1024

\* What one read of at most BufferSize bytes gives of the bytes sent.
ReadOnce(bytes) ==
    IF Len(bytes) <= BufferSize THEN bytes ELSE SubSeq(bytes, 1, BufferSize)

(***************************************************************************)
(* The server.                                                             *)
(***************************************************************************)
VARIABLES
    pc,            \* where main is: "set_database", "create_table", "bind",
                   \* "accept", "read", "route", "connect", "statement",
                   \* "return", "write", "panicked", "exited"
    panic,         \* the unwrap that panicked, "none" while none has
    incoming,      \* the bytes the client of the accepted connection sends
    request,       \* handle_client's request String
    handler,       \* the arm of the match handle_client took
    args,          \* the handler's parsed id and NewUser
    resp,          \* the (status_line, content) the handler returned
    users,         \* the rows of the users table
    users_id_seq,  \* the last value of the SERIAL column's sequence
    streams,       \* the TcpStreams that are open
    clients,       \* the postgres Clients that are open
    before,        \* the users table when the connection was accepted
    opened,        \* the Clients opened for the accepted connection
    statements,    \* the statements executed for the accepted connection
    written,       \* the responses written to the accepted connection
    served,        \* how the latest connection ended: "none", "pending",
                   \* "written", "read_failed"
    driver_error,  \* whether the driver failed the handler's statement
    created,       \* the rows POST stored that no PUT or DELETE has targeted
    deleted        \* the ids of the rows DELETE removed

vars ==
    <<pc, panic, incoming, request, handler, args, resp, users, users_id_seq,
      streams, clients, before, opened, statements, written, served,
      driver_error, created, deleted>>

db == <<users, users_id_seq>>

connection == <<incoming, request, handler, args, resp>>

history == <<before, opened, statements, written, served, driver_error,
             created, deleted>>

Init ==
    /\ pc = "set_database"
    /\ panic = "none"
    /\ incoming = <<>>
    /\ request = <<>>
    /\ handler = "none"
    /\ args = NoArgs
    /\ resp = NoResponse
    /\ users = {}
    /\ users_id_seq = 0
    /\ streams = 0
    /\ clients = 0
    /\ before = {}
    /\ opened = 0
    /\ statements = 0
    /\ written = 0
    /\ served = "none"
    /\ driver_error = FALSE
    /\ created = {}
    /\ deleted = {}

\* An unwrap of an Err: the process ends, and its sockets with it.
Panic(where) ==
    /\ pc' = "panicked"
    /\ panic' = where
    /\ streams' = 0
    /\ clients' = 0

\* set_database: Client::connect(DB_URL, NoTls).unwrap()
SetDatabaseConnect ==
    /\ pc = "set_database"
    /\ \E ok \in BOOLEAN :
          IF ok
          THEN /\ pc' = "create_table"
               /\ clients' = clients + 1
               /\ UNCHANGED <<panic, streams>>
          ELSE Panic("set_database")
    /\ UNCHANGED <<connection, db, history>>

\* set_database: batch_execute(CREATE TABLE IF NOT EXISTS users ...)?, the
\* Client dropped as the function returns; main returns on an Err.
SetDatabaseCreate ==
    /\ pc = "create_table"
    /\ \E ok \in BOOLEAN : pc' = IF ok THEN "bind" ELSE "exited"
    /\ clients' = clients - 1
    /\ UNCHANGED <<panic, streams, connection, db, history>>

\* main: TcpListener::bind("0.0.0.0:8080").unwrap()
Bind ==
    /\ pc = "bind"
    /\ \E ok \in BOOLEAN :
          IF ok
          THEN /\ pc' = "accept"
               /\ UNCHANGED <<panic, streams, clients>>
          ELSE Panic("bind")
    /\ UNCHANGED <<connection, db, history>>

\* main: the next item of listener.incoming(): a stream, which handle_client
\* takes, or an error, which is printed.  A client sends one of Requests; a
\* POST is sent only while the sequence is below MaxSeq.
Accept ==
    /\ pc = "accept"
    /\ \/ /\ \E r \in Requests :
                /\ StartsWith(r, POST) => users_id_seq < MaxSeq
                /\ incoming' = r
          /\ pc' = "read"
          /\ streams' = streams + 1
          /\ request' = <<>>
          /\ handler' = "none"
          /\ args' = NoArgs
          /\ resp' = NoResponse
          /\ before' = users
          /\ opened' = 0
          /\ statements' = 0
          /\ written' = 0
          /\ served' = "pending"
          /\ driver_error' = FALSE
          /\ UNCHANGED <<panic, clients, db, created, deleted>>
       \/ UNCHANGED vars

\* handle_client: stream.read(&mut buffer); on an Err the error is printed
\* and the stream dropped.
Read ==
    /\ pc = "read"
    /\ \/ /\ request' = ReadOnce(incoming)
          /\ pc' = "route"
          /\ UNCHANGED <<streams, served>>
       \/ /\ pc' = "accept"
          /\ streams' = streams - 1
          /\ served' = "read_failed"
          /\ UNCHANGED request
    /\ UNCHANGED <<panic, incoming, handler, args, resp, clients, db, before,
                   opened, statements, written, driver_error, created, deleted>>

\* handle_client's match and the chosen handler up to its Client::connect.
Dispatch ==
    /\ pc = "route"
    /\ \E h \in {Route(request)} :
          \E p \in {Parse(h, request)} :
             /\ handler' = h
             /\ args' = p.args
             /\ resp' = p.resp
             /\ pc' = IF p.connect THEN "connect" ELSE "write"
    /\ UNCHANGED <<panic, incoming, request, streams, clients, db, history>>

\* A handler's Client::connect(DB_URL, NoTls).unwrap()
DbConnect ==
    /\ pc = "connect"
    /\ \E ok \in BOOLEAN :
          IF ok
          THEN /\ pc' = "statement"
               /\ clients' = clients + 1
               /\ opened' = opened + 1
               /\ UNCHANGED <<panic, streams>>
          ELSE /\ Panic("connect")
               /\ UNCHANGED opened
    /\ UNCHANGED <<connection, db, before, statements, written, served,
                   driver_error, created, deleted>>

\* A handler's statement and the response it builds from the result.
DbStatement ==
    /\ pc = "statement"
    /\ \E error \in BOOLEAN :
          \E out \in {Statement(handler, args, request, users, users_id_seq, error)} :
              /\ driver_error' = error
              /\ statements' = statements + 1
              /\ users' = out.table
              /\ users_id_seq' = out.seq
              /\ resp' = out.resp
              /\ created' =
                    IF handler = "post" /\ out.resp.status = 200
                    THEN created \cup out.rows
                    ELSE IF handler \in {"update", "delete"}
                    THEN {r \in created : r.id # args.id}
                    ELSE created
              /\ deleted' =
                    IF handler = "delete" THEN deleted \cup Ids(out.rows)
                    ELSE deleted
              /\ IF out.panic
                 THEN Panic(handler)
                 ELSE /\ pc' = "return"
                      /\ UNCHANGED <<panic, streams, clients>>
    /\ UNCHANGED <<incoming, request, handler, args, before, opened, written,
                   served>>

\* A plausible slip: the Client kept (in a static, a leaked Box) instead of
\* dropped when the handler returns.
HandlerReturnKeepingClient ==
    /\ pc = "return"
    /\ pc' = "write"
    /\ UNCHANGED <<panic, streams, clients, connection, db, history>>

\* A handler returns: its Client goes out of scope and is closed.
HandlerReturn ==
    /\ pc = "return"
    /\ pc' = "write"
    /\ clients' = clients - 1
    /\ UNCHANGED <<panic, streams, connection, db, history>>

\* handle_client: stream.write_all(status_line + content).unwrap(), then the
\* stream is dropped.
Write ==
    /\ pc = "write"
    /\ \E ok \in BOOLEAN :
          IF ok
          THEN /\ pc' = "accept"
               /\ streams' = streams - 1
               /\ written' = written + 1
               /\ served' = "written"
               /\ UNCHANGED <<panic, clients>>
          ELSE /\ Panic("write")
               /\ UNCHANGED <<written, served>>
    /\ UNCHANGED <<connection, db, before, opened, statements, driver_error,
                   created, deleted>>

Next ==
    \/ SetDatabaseConnect
    \/ SetDatabaseCreate
    \/ Bind
    \/ Accept
    \/ Read
    \/ Dispatch
    \/ DbConnect
    \/ DbStatement
    \/ HandlerReturn
    \/ Write

Spec == Init /\ [][Next]_vars

(***************************************************************************)
(* Properties.  A response is looked at in the state where the handler has *)
(* returned it and handle_client is about to write it (pc = "write"):      *)
(* request is the text read, before the table when the connection was      *)
(* accepted, users the table now.                                          *)
(***************************************************************************)
Returned == pc = "write"

\* The handler ran its statement and the driver did not fail it.
Executed == Returned /\ statements = 1 /\ ~driver_error

\* C1 as stated: with the request line `PUT /users?id=N HTTP/1.1` and a
\* well-formed body the handler parses the id N, sets the name and email of
\* user N and answers 200; with `DELETE /users?id=N HTTP/1.1` it parses N,
\* removes user N and answers 200 when that user exists.
C1_QueryParameterNamesUser ==
    \A N \in 1..MaxSeq :
       /\ \A n \in Names, e \in Addresses :
             (Returned /\ request = Request(PUT, QueryTarget(Decimal(N)),
                                            ObjectBody(n, e)))
                => /\ args.id = N
                   /\ resp.status = 200
                   /\ N \in Ids(before) => Row(N, n, e) \in users
       /\ (Returned /\ request = Request(DELETE, QueryTarget(Decimal(N)), <<>>)
              /\ N \in Ids(before))
             => /\ args.id = N
                /\ resp.status = 200
                /\ N \notin Ids(users)

\* C1 amended: the target user is named by the path segment after /users/.
\* With the request line `PUT /users/N HTTP/1.1` and a well-formed body the
\* handler parses the id N and, when user N exists, no other user holds the
\* email and the statement does not fail, sets N's name and email and
\* answers 200; with `DELETE /users/N HTTP/1.1` it parses N and, when user N
\* exists, removes it and answers 200.  With `?id=N` the id parsed is the
\* "1.1" of HTTP/1.1 and the answer is 400.
C1_PathSegmentNamesUser ==
    \A N \in 1..MaxSeq :
       /\ \A n \in Names, e \in Addresses :
             /\ (Returned /\ request = Request(PUT, PathTarget(Decimal(N)),
                                               ObjectBody(n, e)))
                   => /\ handler = "update"
                      /\ args.id = N
                      /\ (/\ ~driver_error
                          /\ N \in Ids(before)
                          /\ ~\E r \in before : r.id # N /\ r.email = e)
                            => /\ resp.status = 200
                               /\ users = {r \in before : r.id # N}
                                             \cup {Row(N, n, e)}
             /\ (Returned /\ request = Request(PUT, QueryTarget(Decimal(N)),
                                               ObjectBody(n, e)))
                   => resp.status = 400 /\ users = before
       /\ (Returned /\ request = Request(DELETE, PathTarget(Decimal(N)), <<>>))
             => /\ handler = "delete"
                /\ args.id = N
                /\ N \in Ids(before)
                      => resp.status = 200 /\ N \notin Ids(users)
       /\ (Returned /\ request = Request(DELETE, QueryTarget(Decimal(N)), <<>>))
             => resp.status = 400 /\ users = before

\* A PUT /users/1 that changed the stored user 1 and was answered 200.
C1_Witness ==
    /\ Returned
    /\ request = Request(PUT, PathTarget(<<"1">>), ObjectBody(<<"a">>, <<"y">>))
    /\ resp.status = 200
    /\ 1 \in Ids(before)
    /\ Row(1, <<"a">>, <<"y">>) \in users \ before

\* C2: no two stored users have the same email; a POST whose email a stored
\* user holds, and a PUT that would give its target an email another user
\* holds, are answered 500 and leave the table as it was.
C2_EmailUnique ==
    /\ \A r1 \in users, r2 \in users : r1.email = r2.email => r1 = r2
    /\ (Returned /\ statements = 1 /\ handler = "post"
           /\ args.email \in Emails(before))
          => resp.status = 500 /\ users = before
    /\ (Returned /\ statements = 1 /\ handler = "update"
           /\ args.id \in Ids(before)
           /\ \E r \in before : r.id # args.id /\ r.email = args.email)
          => resp.status = 500 /\ users = before

\* A PUT refused because another user holds the email.
C2_Witness ==
    /\ Executed
    /\ handler = "update"
    /\ args.id \in Ids(before)
    /\ \E r \in before : r.id # args.id /\ r.email = args.email
    /\ resp.status = 500

\* C3 as stated: no stored user has the empty string as its name.
C3_NameNonEmpty == \A r \in users : r.name # <<>>

\* C3 amended: a stored name is a string, which may be empty.  A POST or PUT
\* whose body has "name": null or no name is answered 400 and leaves the
\* table as it was; a POST whose body has "name": "" and an email no user
\* holds stores a user with the empty name and is answered 200.
C3_NameIsStringMaybeEmpty ==
    /\ (Returned /\ handler \in {"post", "update"}
           /\ RequestBody(request) \in NamelessBodies)
          => /\ resp.status = 400
             /\ statements = 0
             /\ users = before
    /\ \A e \in Addresses :
          (Executed /\ request = Request(POST, USERS, ObjectBody(<<>>, e))
              /\ e \notin Emails(before))
             => /\ resp.status = 200
                /\ \E r \in users \ before : r.name = <<>> /\ r.email = e

\* A POST with "name": "" that stored a user with the empty name.
C3_Witness ==
    /\ Executed
    /\ request = Request(POST, USERS, ObjectBody(<<>>, <<"y">>))
    /\ resp.status = 200
    /\ \E r \in users \ before : r.name = <<>> /\ r.email = <<"y">>

\* The bodies that post the name n and the email e.
Posting(n, e) ==
    {ObjectBody(n, e)}
        \cup (IF n = <<"a">> /\ e = <<"y">> THEN {ObjectBodyWithId(n, e)} ELSE {})

\* C4: a POST /users with a well-formed body whose email no user holds
\* (the statement not failing in the driver) adds exactly one row and
\* changes no other; the row has the posted name and email and an id that
\* no stored user and no deleted user has, the sequence's value whatever
\* id the body names; the answer is 200; and GET /users/<id> returns a created row's name and
\* email as long as no PUT or DELETE has targeted its id.
C4_PostAddsOneFreshUser ==
    /\ \A n \in Names, e \in Addresses :
          (Executed /\ handler = "post" /\ RequestBody(request) \in Posting(n, e)
              /\ e \notin Emails(before))
             => /\ resp.status = 200
                /\ \E r \in users :
                      /\ users = before \cup {r}
                      /\ r.name = n
                      /\ r.email = e
                      /\ r.id \notin Ids(before) \cup deleted
                      /\ r.id = users_id_seq
    /\ created \subseteq users
    /\ \A r \in created :
          (Executed /\ handler = "get_user" /\ args.id = r.id)
             => resp.status = 200 /\ resp.kind = "user" /\ resp.content = r

\* A POST that created a user after an earlier user had been deleted.
C4_Witness ==
    /\ Executed
    /\ handler = "post"
    /\ resp.status = 200
    /\ deleted # {}
    /\ users \ before # {}

\* The extracted id is no 32-bit decimal integer.
IdUnparsable ==
    /\ handler \in {"get_user", "update", "delete"}
    /\ get_id(request) \notin IntegerIdTexts

\* C5 as stated: a request whose extracted id is no 32-bit decimal integer
\* (GET-one, PUT, DELETE) or whose text after the last blank line is no JSON
\* object with string fields name and email (POST, PUT) is answered 400 with
\* a plain-text message, opens no database connection, executes no
\* statement and leaves the table unchanged.
C5_ParseFailureIs400 ==
    (Returned /\ (\/ IdUnparsable
                  \/ /\ handler \in {"post", "update"}
                     /\ RequestBody(request) \notin ObjectBodies))
       => /\ resp.status = 400
          /\ resp.kind = "message"
          /\ opened = 0
          /\ statements = 0
          /\ users = before

\* C5 amended: the same, the bodies that deserialize being the JSON objects
\* with string fields name and email and also the JSON arrays of exactly
\* two strings, [name, email].
C5_ParseFailureIs400UnlessArray ==
    (Returned /\ (\/ IdUnparsable
                  \/ /\ handler \in {"post", "update"}
                     /\ RequestBody(request) \notin ObjectBodies \cup ArrayBodies))
       => /\ resp.status = 400
          /\ resp.kind = "message"
          /\ opened = 0
          /\ statements = 0
          /\ users = before

\* A PUT with a well-formed body and the id x, answered 400.
C5_Witness ==
    /\ Returned
    /\ handler = "update"
    /\ get_id(request) = <<"x">>
    /\ RequestBody(request) \in ObjectBodies
    /\ resp.status = 400
    /\ before # {}

\* C6 as stated: when the driver fails a handler's statement, the response
\* is 500, the table is unchanged and the server goes on serving.
C6_DriverErrorIs500 ==
    driver_error
       => /\ panic \in {"none", "write"}
          /\ resp.status = 500
          /\ users = before

\* C7: at most one client connection is handled and at most one database
\* connection is open at any time; a request opens at most one database
\* connection and executes at most one statement, on an open connection;
\* when the server accepts, no stream and no database connection is open
\* and the connection before was answered or its read failed.
C7_OneAtATime ==
    /\ streams <= 1
    /\ clients <= 1
    /\ opened <= 1
    /\ statements <= opened
    /\ pc = "statement" => clients = 1
    /\ pc = "accept"
          => /\ streams = 0
             /\ clients = 0
             /\ served \in {"none", "written", "read_failed"}

\* The server back at accept after a connection whose request ran one
\* statement on one database connection, with rows in the table.
C7_Witness ==
    /\ pc = "accept"
    /\ served = "written"
    /\ opened = 1
    /\ statements = 1
    /\ users # {}

\* The arms of the router in the order the claim gives them.
Arms ==
    << <<GET \o <<" ">> \o USERS \o <<"/">>, "get_user">>,
       <<GET \o <<" ">> \o USERS, "get_all">>,
       <<POST \o <<" ">> \o USERS, "post">>,
       <<PUT \o <<" ">> \o USERS, "update">>,
       <<DELETE \o <<" ">> \o USERS, "delete">> >>

Matching(text) == {k \in 1..Len(Arms) : StartsWith(text, Arms[k][1])}

FirstArm(text) ==
    IF Matching(text) = {} THEN "not_found"
    ELSE Arms[CHOOSE k \in Matching(text) : \A j \in Matching(text) : k <= j][2]

\* C8: the handler is the one of the first prefix, in the order get-one,
\* get-all, create, update, delete, that the request text starts with; a
\* request that starts with none is answered 404 NOT FOUND with the body
\* `404 Not Found`, opens no database connection and leaves the table
\* unchanged; no connection gets two responses, and when handle_client has
\* returned from a request it read, it wrote one.
C8_FirstPrefixRoutes ==
    /\ pc \in {"connect", "statement", "return", "write"}
          => handler = FirstArm(request)
    /\ (Returned /\ handler = "not_found")
          => /\ resp.status = 404
             /\ resp.kind = "text"
             /\ resp.content = "404 Not Found"
             /\ opened = 0
             /\ users = before
    /\ written <= 1
    /\ (pc = "accept" /\ request # <<>>) => written = 1

\* GET /users?id=1 routed to get-all by its prefix GET /users.
C8_Witness ==
    /\ Returned
    /\ request = Request(GET, QueryTarget(<<"1">>), <<>>)
    /\ handler = "get_all"
    /\ resp.status = 200
    /\ users # {}

\* C9: a DELETE whose id is the integer N removes user N, and only it, and
\* answers 200 when user N is stored; it answers 404 and leaves the table
\* unchanged when it is not.  A deleted id is never stored again, so the
\* same DELETE again, and GET /users/N, answer 404.
C9_DeleteAnswers200IffRemoved ==
    /\ (Returned /\ handler = "delete" /\ statements = 1)
          => /\ args.id = ParseI32(get_id(request)).val
             /\ IF args.id \in Ids(before)
                THEN /\ resp.status = 200
                     /\ users = {r \in before : r.id # args.id}
                ELSE /\ resp.status = 404
                     /\ users = before
    /\ deleted \cap Ids(users) = {}
    /\ (Returned /\ handler = "get_user" /\ statements = 1 /\ args.id \in deleted)
          => resp.status = 404

\* The same DELETE again: the id was deleted before, the answer is 404.
C9_Witness ==
    /\ Returned
    /\ handler = "delete"
    /\ statements = 1
    /\ args.id \in deleted
    /\ resp.status = 404
    /\ users # {}

\* C10: a PUT with a well-formed body and an integer id N leaves the set of
\* stored ids and every row with another id as they were; when no user has
\* id N the table is unchanged and the answer is still 200 with the
\* submitted name and email, where DELETE and GET-one answer 404.
C10_PutKeepsTheIds ==
    /\ (Returned /\ handler = "update" /\ statements = 1)
          => /\ Ids(users) = Ids(before)
             /\ \A r \in before : r.id # args.id => r \in users
             /\ \A r \in users : r.id # args.id => r \in before
    /\ \A n \in Names, e \in Addresses :
          (Executed /\ handler = "update" /\ RequestBody(request) = ObjectBody(n, e)
              /\ args.id \notin Ids(before))
             => /\ users = before
                /\ resp.status = 200
                /\ resp.kind = "new_user"
                /\ resp.content = [name |-> n, email |-> e]
    /\ (Executed /\ handler \in {"delete", "get_user"}
           /\ args.id \notin Ids(before))
          => resp.status = 404

\* A PUT to an id no user has, answered 200, other users being stored.
C10_Witness ==
    /\ Executed
    /\ handler = "update"
    /\ args.id \notin Ids(before)
    /\ resp.status = 200
    /\ users = before
    /\ users # {}

====
